---- MODULE Spec2Model ----
(***************************************************************************)
(* Model of the python-plugin example program: config, utils.format,       *)
(* utils.helpers, the utils package, services.api, main and orphan.        *)
(*                                                                         *)
(* Text that the program transforms (upper-cases, joins, prefixes) is a    *)
(* sequence of one-character strings.  Text that the program only stores   *)
(* or compares (dictionary keys, URLs, module names) is a TLA+ string.     *)
(* Mutable Python objects (dicts, lists) live in a heap addressed by       *)
(* reference, so that sharing between calls can be observed.               *)
(***************************************************************************)
EXTENDS Integers, Sequences, FiniteSets, TLC

VARIABLES
    sys_modules,     \* names of the modules the interpreter has loaded
    stack,           \* import call stack: frames [mod, ip]
    execLog,         \* modules in the order their bodies started executing
    import_error,    \* TRUE once an import raised ImportError
    name_,           \* __name__ of main.py: "__main__" (script) or "main" (imported)
    heap,            \* sequence of objects; a reference is an index into it
    DEFAULT_CONFIG,  \* config.DEFAULT_CONFIG: reference, 0 before config is loaded
    held,            \* references the caller of the library holds
    nops,            \* calls that returned an object plus mutations, so far
    last,            \* the last library call: [fn, args, ret, ref]
    pc,              \* position inside main()
    settings,        \* main's local: reference
    data,            \* main's local: reference
    result,          \* main's local: text
    trace,           \* calls made by the current run of main, in order
    stdout,          \* lines written to standard output
    runs             \* number of times main() was entered

vars == <<sys_modules, stack, execLog, import_error, name_, heap, DEFAULT_CONFIG,
          held, nops, last, pc, settings, data, result, trace, stdout, runs>>

importVars == <<sys_modules, stack, execLog, import_error>>
mainVars == <<pc, settings, data, result, trace, stdout, runs>>

-----------------------------------------------------------------------------
(* Bounds *)

MaxOps == 3        \* calls that return an object plus mutations of returned objects
MaxRuns == 1       \* calls of main() by an importing caller

-----------------------------------------------------------------------------
(* Text *)

\* the values process_data is called with: None, or a list of texts
None == [none |-> TRUE]
ListOf(s) == [list |-> s]

Lower == <<"a","b","c","d","e","f","g","h","i","j","k","l","m",
           "n","o","p","q","r","s","t","u","v","w","x","y","z">>
Upper == <<"A","B","C","D","E","F","G","H","I","J","K","L","M",
           "N","O","P","Q","R","S","T","U","V","W","X","Y","Z">>

\* U+00DF, the one character of the inputs whose upper case is two characters
ESZETT == "sz"

\* str.upper() on one character
UpperChar(c) ==
    IF \E i \in 1..Len(Lower) : Lower[i] = c
    THEN <<Upper[CHOOSE i \in 1..Len(Lower) : Lower[i] = c]>>
    ELSE IF c = ESZETT THEN <<"S", "S">>
    ELSE <<c>>

\* str.upper()
RECURSIVE upper(_)
upper(s) == IF s = <<>> THEN <<>> ELSE UpperChar(Head(s)) \o upper(Tail(s))

\* sep.join(items)
RECURSIVE join(_, _)
join(sep, items) ==
    IF items = <<>> THEN <<>>
    ELSE IF Len(items) = 1 THEN items[1]
    ELSE items[1] \o sep \o join(sep, Tail(items))

OUTPUT_PREFIX == <<"[","O","U","T","P","U","T","]"," ">>
ERROR_PREFIX == <<"[","E","R","R","O","R","]"," ">>
NO_DATA == <<"N","o"," ","d","a","t","a">>
COMMA_SPACE == <<",", " ">>

apple == <<"a","p","p","l","e">>
banana == <<"b","a","n","a","n","a">>
cherry == <<"c","h","e","r","r","y">>

-----------------------------------------------------------------------------
(* utils/format.py *)

\* variant: the prefix without its trailing space
format_output_nospace(text) == <<"[","O","U","T","P","U","T","]">> \o text

format_output(text) == OUTPUT_PREFIX \o text

format_error(message) == ERROR_PREFIX \o message

-----------------------------------------------------------------------------
(* utils/helpers.py *)

\* variant: "data is None" in place of "not data"
Falsy_none_only(d) == d = None

\* "not data": None and the empty list are false
Falsy(d) == d = None \/ d.list = <<>>

\* variant: the comprehension stops one item early
processed_drop_last(d) == [i \in 1..(Len(d) - 1) |-> upper(d[i])]

\* [item.upper() for item in data]
processed(d) == [i \in 1..Len(d) |-> upper(d[i])]

process_data(d) ==
    IF Falsy(d) THEN format_output(NO_DATA)
    ELSE format_output(join(COMMA_SPACE, processed(d.list)))

-----------------------------------------------------------------------------
(* Heap objects *)

Dict(f) == [kind |-> "dict", val |-> f]
List(s) == [kind |-> "list", val |-> s]

\* evaluating a dict or list display allocates a new object
Alloc(h, obj) == [heap |-> Append(h, obj), ref |-> Len(h) + 1]

-----------------------------------------------------------------------------
(* config.py *)

API_URL == "https://api.example.com"
TIMEOUT == 30

\* the dict display bound to DEFAULT_CONFIG
DEFAULT_CONFIG_literal ==
    [api_url |-> [str |-> API_URL], timeout |-> [int |-> TIMEOUT], debug |-> [bool |-> FALSE]]

\* variant: the dict itself is returned, not a copy
dict_alias(h, a) == [heap |-> h, ref |-> a]

\* dict.copy(): a new dict with the keys and (immutable) values of h[a]
dict_copy(h, a) == Alloc(h, Dict(h[a].val))

\* load_config(), given the heap and the binding of DEFAULT_CONFIG
load_config(h, dc) == dict_copy(h, dc)

-----------------------------------------------------------------------------
(* services/api.py *)

mock_data_literal == <<apple, banana, cherry>>

\* a fetch_data that keeps one list and returns it on every call
fetch_data_shared(h, url) ==
    IF \E a \in 1..Len(h) : h[a].kind = "list"
    THEN [heap |-> h, ref |-> CHOOSE a \in 1..Len(h) : h[a].kind = "list"]
    ELSE Alloc(h, List(mock_data_literal))

\* a fetch_data that reads its argument: nothing to fetch from an empty URL
fetch_data_by_url(h, url) ==
    IF url = "" THEN Alloc(h, List(<<>>)) ELSE Alloc(h, List(mock_data_literal))

\* fetch_data(url): the list display is evaluated on every call; url is not read
fetch_data(h, url) == Alloc(h, List(mock_data_literal))

\* variant: the payload is put in the returned dict
post_data_with_payload(h, url, payload) ==
    Alloc(h, Dict([status |-> [str |-> "ok"], url |-> [str |-> url], payload |-> payload]))

\* post_data(url, payload): payload is not read
post_data(h, url, payload) ==
    Alloc(h, Dict([status |-> [str |-> "ok"], url |-> [str |-> url]]))

-----------------------------------------------------------------------------
(* Import statements *)

\* the seven source files, by module name
Modules ==
    {"config", "utils.format", "utils.helpers", "utils", "services.api", "main", "orphan"}

Stmt(t, f) == [target |-> t, from |-> f]

\* variant: main.py also has "import orphan"
ImportStmts_main_imports_orphan(m) ==
    IF m = "main"
    THEN <<Stmt("config", FALSE), Stmt("services.api", TRUE),
           Stmt("utils.helpers", TRUE), Stmt("orphan", FALSE)>>
    ELSE IF m = "utils.helpers" THEN <<Stmt("utils.format", TRUE)>>
    ELSE IF m = "utils" THEN <<Stmt("utils.helpers", TRUE), Stmt("utils.format", TRUE)>>
    ELSE IF m = "services.api" THEN <<Stmt("utils.helpers", TRUE)>>
    ELSE <<>>

\* variant: helpers.py has "from utils import format_output"
ImportStmts_helpers_imports_package(m) ==
    IF m = "main"
    THEN <<Stmt("config", FALSE), Stmt("services.api", TRUE), Stmt("utils.helpers", TRUE)>>
    ELSE IF m = "utils.helpers" THEN <<Stmt("utils", TRUE)>>
    ELSE IF m = "utils" THEN <<Stmt("utils.helpers", TRUE), Stmt("utils.format", TRUE)>>
    ELSE IF m = "services.api" THEN <<Stmt("utils.helpers", TRUE)>>
    ELSE <<>>

\* the import statements of each file, in file order; from = "from X import name"
ImportStmts(m) ==
    IF m = "main"
    THEN <<Stmt("config", FALSE), Stmt("services.api", TRUE), Stmt("utils.helpers", TRUE)>>
    ELSE IF m = "utils.helpers" THEN <<Stmt("utils.format", TRUE)>>
    ELSE IF m = "utils" THEN <<Stmt("utils.helpers", TRUE), Stmt("utils.format", TRUE)>>
    ELSE IF m = "services.api" THEN <<Stmt("utils.helpers", TRUE)>>
    ELSE <<>>

\* the modules a file's import statements name
Imports(m) == {ImportStmts(m)[i].target : i \in 1..Len(ImportStmts(m))}

\* importing a submodule first imports its package when the package has code
\* (utils/__init__.py); services has no __init__.py and runs nothing
ImportChain(t) ==
    IF t \in {"utils.format", "utils.helpers"} THEN <<"utils", t>> ELSE <<t>>

OnStack(m) == \E i \in 1..Len(stack) : stack[i].mod = m

-----------------------------------------------------------------------------
(* Inputs of the calls *)

Urls == {API_URL, ""}

Payloads == {[none |-> TRUE], [str |-> "body"]}

fig == <<"f","i","g">>
eszett_item == <<"a", ESZETT>>
comma_item == <<"O","k",","," ","1">>

\* literal lists passed to process_data
LitData == {<<>>, <<fig, eszett_item>>, <<comma_item, <<>>, cherry>>}

Texts == {<<>>, ERROR_PREFIX \o <<"X">>}

MutVal == [str |-> "changed"]
\* the keys a caller assigns or deletes: the one main reads, the one post_data echoes,
\* and one that no returned dict has
MutKeys == {"api_url", "url", "extra"}
durian == <<"d","u","r","i","a","n">>

NoCall == [fn |-> "none", args |-> <<>>, ret |-> None, ref |-> 0]

Call(f, a, r, x) == [fn |-> f, args |-> a, ret |-> r, ref |-> x]

-----------------------------------------------------------------------------
(* Initial state: the interpreter starts executing main.py *)

Init ==
    /\ name_ \in {"__main__", "main"}
    /\ sys_modules = {"main"}
    /\ stack = <<[mod |-> "main", ip |-> 1]>>
    /\ execLog = <<"main">>
    /\ import_error = FALSE
    /\ heap = <<>>
    /\ DEFAULT_CONFIG = 0
    /\ held = {}
    /\ nops = 0
    /\ last = NoCall
    /\ pc = "idle"
    /\ settings = 0
    /\ data = 0
    /\ result = <<>>
    /\ trace = <<>>
    /\ stdout = <<>>
    /\ runs = 0

-----------------------------------------------------------------------------
(* Import resolution *)

Top == stack[Len(stack)]
Pop(st) == SubSeq(st, 1, Len(st) - 1)

CurrentStmt == ImportStmts(Top.mod)[Top.ip]

\* the first module of the statement's chain that is not yet in sys.modules
Pending ==
    LET ch == ImportChain(CurrentStmt.target)
    IN  {ch[i] : i \in {j \in 1..Len(ch) :
                          /\ ch[j] \notin sys_modules
                          /\ \A k \in 1..(j - 1) : ch[k] \in sys_modules}}

\* an import statement finds a module that is not loaded: the module is entered
\* in sys.modules and its body starts executing
ImportEnter ==
    /\ stack # <<>>
    /\ Top.ip <= Len(ImportStmts(Top.mod))
    /\ Pending # {}
    /\ LET m == CHOOSE x \in Pending : TRUE
       IN  /\ sys_modules' = sys_modules \cup {m}
           /\ stack' = Append(stack, [mod |-> m, ip |-> 1])
           /\ execLog' = Append(execLog, m)
    /\ UNCHANGED <<import_error, name_, heap, DEFAULT_CONFIG, held, nops, last>>
    /\ UNCHANGED mainVars

\* an import statement finds its module in sys.modules: "from X import name"
\* fails when X has not yet run to the definition of name
ImportBind ==
    /\ stack # <<>>
    /\ Top.ip <= Len(ImportStmts(Top.mod))
    /\ Pending = {}
    /\ IF CurrentStmt.from /\ OnStack(CurrentStmt.target)
       THEN /\ import_error' = TRUE
            /\ stack' = <<>>
       ELSE /\ import_error' = FALSE
            /\ stack' = [stack EXCEPT ![Len(stack)].ip = @ + 1]
    /\ UNCHANGED <<sys_modules, execLog, name_, heap, DEFAULT_CONFIG, held, nops, last>>
    /\ UNCHANGED mainVars

\* a module body past its imports runs to its end: config binds DEFAULT_CONFIG,
\* main.py calls main() when run as a script
ImportReturn ==
    /\ stack # <<>>
    /\ Top.ip > Len(ImportStmts(Top.mod))
    /\ stack' = Pop(stack)
    /\ IF Top.mod = "config"
       THEN LET r == Alloc(heap, Dict(DEFAULT_CONFIG_literal))
            IN  heap' = r.heap /\ DEFAULT_CONFIG' = r.ref
       ELSE UNCHANGED <<heap, DEFAULT_CONFIG>>
    /\ IF Top.mod = "main" /\ name_ = "__main__"
       THEN pc' = "load" /\ runs' = runs + 1 /\ trace' = <<>>
       ELSE UNCHANGED <<pc, runs, trace>>
    /\ UNCHANGED <<sys_modules, execLog, import_error, name_, held, nops, last,
                   settings, data, result, stdout>>

-----------------------------------------------------------------------------
(* main.py: main() *)

\* the heap after a function returns: the objects allocated last that nothing
\* refers to any more are freed
RECURSIVE Release(_, _)
Release(h, live) ==
    IF h = <<>> \/ Len(h) \in live THEN h
    ELSE Release(SubSeq(h, 1, Len(h) - 1), live)

\* settings = config.load_config()
MainLoad ==
    /\ pc = "load"
    /\ LET r == load_config(heap, DEFAULT_CONFIG)
       IN  /\ heap' = r.heap
           /\ settings' = r.ref
           /\ trace' = Append(trace, Call("load_config", <<>>, r.heap[r.ref].val, r.ref))
    /\ pc' = "fetch"
    /\ UNCHANGED importVars
    /\ UNCHANGED <<name_, DEFAULT_CONFIG, held, nops, last, data, result, stdout, runs>>

\* data = fetch_data(settings["api_url"]); a missing key raises KeyError
MainFetch ==
    /\ pc = "fetch"
    /\ IF "api_url" \in DOMAIN heap[settings].val
       THEN LET url == heap[settings].val["api_url"].str
                r == fetch_data(heap, url)
            IN  /\ heap' = r.heap
                /\ data' = r.ref
                /\ trace' = Append(trace, Call("fetch_data", <<url>>, r.heap[r.ref].val, r.ref))
                /\ pc' = "process"
       ELSE /\ pc' = "crashed"
            /\ UNCHANGED <<heap, data, trace>>
    /\ UNCHANGED importVars
    /\ UNCHANGED <<name_, DEFAULT_CONFIG, held, nops, last, settings, result, stdout, runs>>

\* result = process_data(data)
MainProcess ==
    /\ pc = "process"
    /\ result' = process_data(ListOf(heap[data].val))
    /\ trace' = Append(trace, Call("process_data", <<ListOf(heap[data].val)>>, result', 0))
    /\ pc' = "print"
    /\ UNCHANGED importVars
    /\ UNCHANGED <<name_, heap, DEFAULT_CONFIG, held, nops, last, settings, data,
                   stdout, runs>>

\* variant: the result is printed twice
MainPrint_twice ==
    /\ pc = "print"
    /\ stdout' = stdout \o <<result, result>>
    /\ trace' = Append(trace, Call("print", <<result>>, None, 0))
    /\ pc' = "done"
    /\ heap' = Release(heap, held \cup {DEFAULT_CONFIG})
    /\ settings' = 0 /\ data' = 0 /\ result' = <<>>
    /\ UNCHANGED importVars
    /\ UNCHANGED <<name_, DEFAULT_CONFIG, held, nops, last, runs>>

\* print(result), then main returns
MainPrint ==
    /\ pc = "print"
    /\ stdout' = Append(stdout, result)
    /\ trace' = Append(trace, Call("print", <<result>>, None, 0))
    /\ pc' = "done"
    /\ heap' = Release(heap, held \cup {DEFAULT_CONFIG})
    /\ settings' = 0 /\ data' = 0 /\ result' = <<>>
    /\ UNCHANGED importVars
    /\ UNCHANGED <<name_, DEFAULT_CONFIG, held, nops, last, runs>>

-----------------------------------------------------------------------------
(* A caller that imported main: it calls the functions and mutates what they return *)

CallerTurn ==
    /\ stack = <<>>
    /\ ~import_error
    /\ name_ = "main"
    /\ pc \in {"idle", "done"}

CanOperate == nops < MaxOps

\* the call and what it returned become the last call
Observe(c) == last' = c

Frame == /\ UNCHANGED importVars
         /\ UNCHANGED mainVars
         /\ UNCHANGED <<name_, DEFAULT_CONFIG>>

CallMain ==
    /\ CallerTurn
    /\ runs < MaxRuns
    /\ pc' = "load"
    /\ runs' = runs + 1
    /\ trace' = <<>>
    /\ UNCHANGED importVars
    /\ UNCHANGED <<name_, heap, DEFAULT_CONFIG, held, nops, last, settings, data,
                   result, stdout>>

CallLoadConfig ==
    /\ CallerTurn /\ CanOperate
    /\ LET r == load_config(heap, DEFAULT_CONFIG)
       IN  /\ heap' = r.heap
           /\ held' = held \cup {r.ref}
           /\ Observe(Call("load_config", <<>>, r.heap[r.ref].val, r.ref))
    /\ nops' = nops + 1
    /\ Frame

CallFetchData ==
    /\ CallerTurn /\ CanOperate
    /\ \E url \in Urls :
         LET r == fetch_data(heap, url)
         IN  /\ heap' = r.heap
             /\ held' = held \cup {r.ref}
             /\ Observe(Call("fetch_data", <<url>>, r.heap[r.ref].val, r.ref))
    /\ nops' = nops + 1
    /\ Frame

CallPostData ==
    /\ CallerTurn /\ CanOperate
    /\ \E url \in Urls, payload \in Payloads :
         LET r == post_data(heap, url, payload)
         IN  /\ heap' = r.heap
             /\ held' = held \cup {r.ref}
             /\ Observe(Call("post_data", <<url, payload>>, r.heap[r.ref].val, r.ref))
    /\ nops' = nops + 1
    /\ Frame

\* process_data on None, on a literal list, or on a list the caller holds
CallProcessData ==
    /\ CallerTurn
    /\ \/ Observe(Call("process_data", <<None>>, process_data(None), 0))
       \/ \E d \in LitData :
            Observe(Call("process_data", <<ListOf(d)>>, process_data(ListOf(d)), 0))
       \/ \E a \in held :
            /\ heap[a].kind = "list"
            /\ Observe(Call("process_data", <<ListOf(heap[a].val)>>,
                             process_data(ListOf(heap[a].val)), 0))
    /\ UNCHANGED <<heap, held, nops>>
    /\ Frame

CallFormatOutput ==
    /\ CallerTurn
    /\ \E t \in Texts : Observe(Call("format_output", <<t>>, format_output(t), 0))
    /\ UNCHANGED <<heap, held, nops>>
    /\ Frame

CallFormatError ==
    /\ CallerTurn
    /\ \E t \in Texts : Observe(Call("format_error", <<t>>, format_error(t), 0))
    /\ UNCHANGED <<heap, held, nops>>
    /\ Frame

Mutated(a, v) ==
    /\ heap' = [heap EXCEPT ![a].val = v]
    /\ nops' = nops + 1
    /\ last' = Call("mutate", <<a>>, None, a)
    /\ UNCHANGED held
    /\ Frame

\* d[k] = v on a returned dict: sets a key or adds one
MutateDictSet ==
    /\ CallerTurn /\ CanOperate
    /\ \E a \in held :
         /\ heap[a].kind = "dict"
         /\ \E k \in (MutKeys \cap DOMAIN heap[a].val) \cup {"extra"} :
              Mutated(a, [x \in DOMAIN heap[a].val \cup {k} |->
                            IF x = k THEN MutVal ELSE heap[a].val[x]])

\* del d[k] on a returned dict
MutateDictDel ==
    /\ CallerTurn /\ CanOperate
    /\ \E a \in held :
         /\ heap[a].kind = "dict"
         /\ \E k \in MutKeys \cap DOMAIN heap[a].val :
              Mutated(a, [x \in DOMAIN heap[a].val \ {k} |-> heap[a].val[x]])

\* append, pop, item assignment on a returned list
MutateList ==
    /\ CallerTurn /\ CanOperate
    /\ \E a \in held :
         /\ heap[a].kind = "list"
         /\ LET l == heap[a].val
            IN  \/ Mutated(a, Append(l, durian))
                \/ l # <<>> /\ Mutated(a, SubSeq(l, 1, Len(l) - 1))
                \/ l # <<>> /\ Mutated(a, [l EXCEPT ![1] = durian])

-----------------------------------------------------------------------------

Next ==
    \/ ImportEnter
    \/ ImportBind
    \/ ImportReturn
    \/ CallMain
    \/ MainLoad
    \/ MainFetch
    \/ MainProcess
    \/ MainPrint
    \/ CallLoadConfig
    \/ CallFetchData
    \/ CallPostData
    \/ CallProcessData
    \/ CallFormatOutput
    \/ CallFormatError
    \/ MutateDictSet
    \/ MutateDictDel
    \/ MutateList

Spec == Init /\ [][Next]_vars

-----------------------------------------------------------------------------
(* Claims *)

OUTPUT_TEXT == <<"[","O","U","T","P","U","T","]"," ">>
ERROR_TEXT == <<"[","E","R","R","O","R","]"," ">>
NO_DATA_LINE == <<"[","O","U","T","P","U","T","]"," ","N","o"," ","d","a","t","a">>
FRUIT_LINE ==
    <<"[","O","U","T","P","U","T","]"," ","A","P","P","L","E",","," ",
      "B","A","N","A","N","A",","," ","C","H","E","R","R","Y">>
ExpectedData == <<apple, banana, cherry>>
ExpectedConfig ==
    [api_url |-> [str |-> "https://api.example.com"], timeout |-> [int |-> 30],
     debug |-> [bool |-> FALSE]]

Running == {"load", "fetch", "process", "print"}
MainSteps == <<"load_config", "fetch_data", "process_data", "print">>
TraceLen ==
    [p \in {"load", "fetch", "process", "print", "done"} |->
        CASE p = "load" -> 0 [] p = "fetch" -> 1 [] p = "process" -> 2
          [] p = "print" -> 3 [] p = "done" -> 4]

\* C1: a run of main() makes its calls in the order load_config, fetch_data (with the
\* loaded api_url), process_data (with the fetched list), then prints once the line
\* "[OUTPUT] APPLE, BANANA, CHERRY"; nothing else is written to standard output,
\* main never fails and can always take its next step until it has returned.
C1_MainPrintsFruitLineOnce ==
    /\ pc # "crashed"
    /\ stack # <<>> => pc = "idle" /\ stdout = <<>>
    /\ (name_ = "__main__" /\ stack = <<>> /\ ~import_error) => runs = 1
    /\ Len(stdout) = IF pc \in Running THEN runs - 1 ELSE runs
    /\ \A i \in 1..Len(stdout) : stdout[i] = FRUIT_LINE
    /\ pc \in Running => ENABLED (MainLoad \/ MainFetch \/ MainProcess \/ MainPrint)
    /\ pc \in DOMAIN TraceLen =>
         /\ Len(trace) = TraceLen[pc]
         /\ \A i \in 1..Len(trace) : trace[i].fn = MainSteps[i]
         /\ Len(trace) >= 2 => trace[2].args = <<trace[1].ret["api_url"].str>>
         /\ Len(trace) >= 3 => trace[3].args = <<ListOf(trace[2].ret)>>
         /\ Len(trace) >= 4 => trace[4].args = <<trace[3].ret>> /\ trace[3].ret = FRUIT_LINE

C1_Witness ==
    /\ name_ = "__main__"
    /\ pc = "done"
    /\ stdout = <<FRUIT_LINE>>

\* offset in process_data's output at which the upper-cased item i starts
RECURSIVE PieceStart(_, _)
PieceStart(d, i) ==
    IF i = 1 THEN Len(OUTPUT_TEXT)
    ELSE PieceStart(d, i - 1) + Len(upper(d[i - 1])) + 2

\* C2: for a non-empty list, process_data returns "[OUTPUT] " followed by the
\* upper-cased items, one per input item, in input order, separated by ", ".
C2_ProcessDataJoinsUpperCasedItems ==
    LET d == last.args[1].list
        r == last.ret
    IN  (last.fn = "process_data" /\ last.args[1] # None /\ d # <<>>) =>
          /\ SubSeq(r, 1, Len(OUTPUT_TEXT)) = OUTPUT_TEXT
          /\ Len(r) = PieceStart(d, Len(d)) + Len(upper(d[Len(d)]))
          /\ \A i \in 1..Len(d) :
               SubSeq(r, PieceStart(d, i) + 1, PieceStart(d, i) + Len(upper(d[i])))
                 = upper(d[i])
          /\ \A i \in 1..(Len(d) - 1) :
               SubSeq(r, PieceStart(d, i + 1) - 1, PieceStart(d, i + 1)) = <<",", " ">>
          /\ d = ExpectedData => r = FRUIT_LINE

C2_Witness ==
    /\ last.fn = "process_data"
    /\ last.args = <<ListOf(ExpectedData)>>
    /\ last.ret = FRUIT_LINE

\* C3: process_data of the empty list and of None both return "[OUTPUT] No data",
\* which is format_output("No data").
C3_ProcessDataEmptyOrNone ==
    (last.fn = "process_data" /\ (last.args[1] = None \/ last.args[1].list = <<>>)) =>
        /\ last.ret = NO_DATA_LINE
        /\ last.ret = format_output(<<"N","o"," ","d","a","t","a">>)

C3_Witness ==
    /\ last.fn = "process_data"
    /\ last.args = <<ListOf(<<>>)>>
    /\ last.ret = NO_DATA_LINE

IsConfigDict(a) == heap[a].kind = "dict" /\ "debug" \in DOMAIN heap[a].val

\* C4: every load_config() returns a new mapping equal to the three default
\* settings, whatever was done to mappings returned earlier, and the module's
\* default mapping keeps its value.
C4_LoadConfigReturnsDefaults ==
    /\ last.fn = "load_config" =>
         /\ last.ret = ExpectedConfig
         /\ last.ref # DEFAULT_CONFIG
    /\ DEFAULT_CONFIG # 0 => heap[DEFAULT_CONFIG].val = ExpectedConfig
    /\ (pc \in Running \ {"load"}) => trace[1].ret = ExpectedConfig

C4_Witness ==
    /\ last.fn = "load_config"
    /\ \E a \in held \ {last.ref} : IsConfigDict(a) /\ heap[a].val # ExpectedConfig

\* C5: fetch_data returns the list apple, banana, cherry for every url and on every
\* call, also after a list it returned earlier was changed.
C5_FetchDataReturnsFruit ==
    /\ last.fn = "fetch_data" => last.ret = ExpectedData /\ Len(last.ret) = 3
    /\ (pc \in {"process", "print"}) => trace[2].ret = ExpectedData

C5_Witness ==
    /\ last.fn = "fetch_data"
    /\ last.args = <<"">>
    /\ \E a \in held \ {last.ref} : heap[a].kind = "list" /\ heap[a].val # ExpectedData

\* the modules reachable from the modules of S along import statements
RECURSIVE Reach(_)
Reach(S) ==
    LET T == S \cup UNION {Imports(m) : m \in S}
    IN  IF T = S THEN S ELSE Reach(T)

InDegree(m) == Cardinality({n \in Modules : m \in Imports(n)})
OutDegree(m) == Cardinality(Imports(m))

\* the import statements give orphan no edge and no path from main
OrphanHasNoEdges ==
    /\ InDegree("orphan") = 0
    /\ OutDegree("orphan") = 0
    /\ "orphan" \notin Reach({"main"})

\* C6: no file imports orphan and orphan imports nothing, so orphan is not
\* reachable from main and is never loaded.
C6_OrphanIsIsolated ==
    /\ OrphanHasNoEdges
    /\ "orphan" \notin sys_modules

C6_Witness ==
    /\ stack = <<>>
    /\ ~import_error
    /\ sys_modules = Modules \ {"orphan"}

\* the text process_data is to return, built from the left
RECURSIVE JoinedUpper(_, _)
JoinedUpper(d, n) ==
    IF n = 1 THEN upper(d[1])
    ELSE JoinedUpper(d, n - 1) \o <<",", " ">> \o upper(d[n])

\* the one result each call has, as a function of its arguments only
ResultOf(f, a) ==
    CASE f = "load_config" -> ExpectedConfig
      [] f = "fetch_data" -> ExpectedData
      [] f = "post_data" -> [status |-> [str |-> "ok"], url |-> [str |-> a[1]]]
      [] f = "process_data" ->
            IF a[1] = None \/ a[1].list = <<>> THEN NO_DATA_LINE
            ELSE OUTPUT_TEXT \o JoinedUpper(a[1].list, Len(a[1].list))
      [] f = "format_output" -> OUTPUT_TEXT \o a[1]
      [] f = "format_error" -> ERROR_TEXT \o a[1]

LibraryCalls ==
    {"load_config", "fetch_data", "post_data", "process_data", "format_output", "format_error"}

\* C7: whatever calls and mutations came before, the result of a call is the one
\* value its arguments determine; no object handed to the caller is the module's
\* default mapping.
C7_ResultsDependOnArgumentsOnly ==
    /\ last.fn \in LibraryCalls => last.ret = ResultOf(last.fn, last.args)
    /\ \A i \in 1..Len(trace) :
         trace[i].fn \in LibraryCalls => trace[i].ret = ResultOf(trace[i].fn, trace[i].args)
    /\ DEFAULT_CONFIG \notin held

C7_Witness ==
    /\ last.fn = "fetch_data"
    /\ \E a \in held \ {last.ref} : heap[a].kind = "list" /\ heap[a].val = <<durian, banana, cherry>>

\* C8: post_data returns exactly {status: "ok", url: url} for every url and payload,
\* and the call leaves every existing object and the module state as they were.
C8_PostDataEchoesUrl ==
    /\ [](last.fn = "post_data" =>
            /\ DOMAIN last.ret = {"status", "url"}
            /\ last.ret["status"] = [str |-> "ok"]
            /\ last.ret["url"] = [str |-> last.args[1]])
    /\ [][(last'.fn = "post_data" /\ held' # held) =>
            /\ Len(heap') = Len(heap) + 1
            /\ \A a \in 1..Len(heap) : heap'[a] = heap[a]
            /\ held' = held \cup {Len(heap')}
            /\ nops' = nops + 1
            /\ UNCHANGED <<DEFAULT_CONFIG, sys_modules, stdout, pc>>]_vars

C8_Witness ==
    /\ last.fn = "post_data"
    /\ last.args = <<"", [str |-> "body"]>>
    /\ last.ret = [status |-> [str |-> "ok"], url |-> [str |-> ""]]

\* C9: format_output(t) is "[OUTPUT] " followed by t and format_error(t) is
\* "[ERROR] " followed by t; process_data's output begins with "[OUTPUT] " and
\* not with "[ERROR] ".
C9_FormatPrefixes ==
    LET t == last.args[1]
        r == last.ret
    IN  /\ last.fn = "format_output" =>
             /\ Len(r) = 9 + Len(t)
             /\ SubSeq(r, 1, 9) = OUTPUT_TEXT
             /\ SubSeq(r, 10, Len(r)) = t
        /\ last.fn = "format_error" =>
             /\ Len(r) = 8 + Len(t)
             /\ SubSeq(r, 1, 8) = ERROR_TEXT
             /\ SubSeq(r, 9, Len(r)) = t
        /\ last.fn = "process_data" =>
             /\ Len(r) >= 9
             /\ SubSeq(r, 1, 9) = OUTPUT_TEXT
             /\ SubSeq(r, 1, 8) # ERROR_TEXT

C9_Witness ==
    /\ last.fn = "format_output"
    /\ last.args = <<ERROR_TEXT \o <<"X">>>>
    /\ last.ret = OUTPUT_TEXT \o ERROR_TEXT \o <<"X">>

\* the components in the order the specification lists them
Components ==
    <<"config", "utils.format", "utils.helpers", "utils", "services.api", "main", "orphan">>

Position(m) == CHOOSE i \in 1..Len(Components) : Components[i] = m

Visits(m) == Cardinality({i \in 1..Len(execLog) : execLog[i] = m})

\* the listed order puts every import target before its importer; no import cycle
ListedOrderIsTopological ==
    /\ \A m \in Modules : \A t \in Imports(m) : Position(t) < Position(m)
    /\ \A m \in Modules : m \notin Reach(Imports(m))

ReachedFromMain == Reach({"main"})

\* C10: every import statement of a component names a component listed before it;
\* so no module is reachable from what it imports, resolving main's imports runs
\* each module body at most once, raises no ImportError, can always continue until
\* it ends, and ends with every module main reaches run exactly once.
C10_ImportsFollowListedOrder ==
    /\ ListedOrderIsTopological
    /\ \A m \in Modules : Visits(m) <= 1
    /\ ~import_error
    /\ stack # <<>> => ENABLED (ImportEnter \/ ImportBind \/ ImportReturn)
    /\ stack = <<>> => \A m \in ReachedFromMain : Visits(m) = 1

C10_Witness ==
    /\ stack = <<>>
    /\ execLog = <<"main", "config", "services.api", "utils", "utils.helpers", "utils.format">>

====
